---- MODULE Spec2Model ----
(***************************************************************************)
(* Model of the document-understanding service: the request handler        *)
(* extract_entities (api/endpoints.py) and the components it drives, the   *)
(* OCR adapter (core/ocr.py), the vector-index classifier                  *)
(* (core/vector_db.py) and the schema-driven LLM extractor (core/llm.py);  *)
(* and of the offline index builder (scripts/build_vector_db.py) with its  *)
(* checkpoint file.  Spec is the service, SpecOcr the OCR adapter called   *)
(* on its own, SpecCorpus the builder's corpus enumeration and SpecBuild   *)
(* successive runs of the builder.                                         *)
(*                                                                         *)
(* Conventions.                                                            *)
(*  - A Python str whose characters matter (document types, OCR text,      *)
(*    file suffixes) is a tuple of one-character strings, so that lower()  *)
(*    strip() and join() are computed.  A str that is only compared whole  *)
(*    is a TLA+ string.                                                    *)
(*  - A value produced by json.loads is tagged: [t |-> type, v |-> value]. *)
(*  - Distances are integers in thousandths, confidences in hundredths.    *)
(*  - What an external collaborator does on a call (the index, the model   *)
(*    service, the PDF and OCR engines) is an input picked when the call   *)
(*    is made.                                                             *)
(***************************************************************************)
EXTENDS Integers, Sequences, FiniteSets, TLC

VARIABLES
    cache,                  \* lru_cache of get_vector_db_client: <<>> or <<client>>
    readers,                \* number of easyocr.Reader instances created so far
    pc,                     \* position of the request being served
    request,                \* the upload: declared content type and filename suffix
    file,                   \* the bytes read from the upload, while OCR needs them
    trace,                  \* calls made while serving the current request, in order
    extracted_text,         \* handler local: OCR output
    query_reply,            \* what the embedding model and the index did on this call
    classification_result,  \* handler local: find_document_type's return value
    llm_reply,              \* what the model service did on this call
    entities,               \* handler local: extract_entities_with_llm's outcome
    response,               \* the HTTP response of the current request
    ocr_call,               \* one call of extract_text_from_document: arguments and outcome
    transform_call,         \* one call of a preprocessing transform: arguments and outcome
    tree,                   \* the files under SAMPLE_DOCS_PATH
    checkpoint,             \* CHECKPOINT_FILE: whether it exists, and its lines
    before,                 \* the lines of CHECKPOINT_FILE when the current run started
    bpc,                    \* position of the builder's main()
    runs,                   \* number of builder runs started
    all_doc_paths,          \* main local: the corpus
    processed_paths,        \* main local: source files found in the checkpoint
    remaining_paths,        \* main local: the tasks given to the pool
    texts_to_process,       \* main local: the records to embed
    pending,                \* tasks a worker has not finished yet
    ready,                  \* results imap_unordered has not yielded yet
    current,                \* the result the loop body is handling
    f_out,                  \* lines written to the checkpoint handle, not yet flushed
    acknowledged,           \* tasks of this run that reached pbar.update(1)
    earlier,                \* tasks acknowledged in earlier runs
    embeddings,             \* main local: the output of model.encode
    add_calls,              \* the collection.add calls of this run, with their outcome
    collection              \* the entries of the collection persisted at DB_PATH

reqvars == <<cache, readers, pc, request, file, trace, extracted_text, query_reply,
             classification_result, llm_reply, entities, response>>

buildvars == <<tree, checkpoint, before, bpc, runs, all_doc_paths, processed_paths,
               remaining_paths, texts_to_process, pending, ready, current, f_out,
               acknowledged, earlier, embeddings, add_calls, collection>>

vars == <<reqvars, ocr_call, transform_call, buildvars>>

-----------------------------------------------------------------------------
(* Bounds *)

\* Pages of an uploaded PDF.
MaxPages == 2
\* easyocr.Reader instances created in one process run (caps the requests that reach OCR).
MaxReaders == 3

\* Chunk size of the insertion phase (see BatchSize).
MaxBatch == 2

\* Builder runs in one behaviour.
MaxRuns == 2

\* Width and height of the images given to the transforms, in pixels.
MaxSide == 3

-----------------------------------------------------------------------------
(* Strings *)

UpperToLower ==
    [c \in {"A", "B", "C", "D", "E", "F", "G", "H", "I", "J", "K", "L", "M",
            "N", "O", "P", "Q", "R", "S", "T", "U", "V", "W", "X", "Y", "Z"} |->
        CASE c = "A" -> "a" [] c = "B" -> "b" [] c = "C" -> "c" [] c = "D" -> "d"
          [] c = "E" -> "e" [] c = "F" -> "f" [] c = "G" -> "g" [] c = "H" -> "h"
          [] c = "I" -> "i" [] c = "J" -> "j" [] c = "K" -> "k" [] c = "L" -> "l"
          [] c = "M" -> "m" [] c = "N" -> "n" [] c = "O" -> "o" [] c = "P" -> "p"
          [] c = "Q" -> "q" [] c = "R" -> "r" [] c = "S" -> "s" [] c = "T" -> "t"
          [] c = "U" -> "u" [] c = "V" -> "v" [] c = "W" -> "w" [] c = "X" -> "x"
          [] c = "Y" -> "y" [] c = "Z" -> "z"]

\* str.lower()
Lower(s) ==
    [i \in DOMAIN s |-> IF s[i] \in DOMAIN UpperToLower THEN UpperToLower[s[i]] ELSE s[i]]

Whitespace == {" ", "\n", "\t"}

RECURSIVE LStrip(_)
LStrip(s) == IF s # <<>> /\ Head(s) \in Whitespace THEN LStrip(Tail(s)) ELSE s

RECURSIVE RStrip(_)
RStrip(s) ==
    IF s # <<>> /\ s[Len(s)] \in Whitespace THEN RStrip(SubSeq(s, 1, Len(s) - 1)) ELSE s

\* str.strip()
Strip(s) == RStrip(LStrip(s))

\* sep.join(parts)
RECURSIVE Join(_, _)
Join(sep, parts) ==
    IF parts = <<>> THEN <<>>
    ELSE IF Len(parts) = 1 THEN parts[1]
    ELSE parts[1] \o sep \o Join(sep, Tail(parts))

\* A str formatted from fragments (an f-string); Contains is substring search
\* at fragment granularity.
FString(fragments) == [t |-> "fstring", v |-> fragments]
Contains(detail, fragment) ==
    detail.t = "fstring" /\ \E i \in DOMAIN detail.v : detail.v[i] = fragment

-----------------------------------------------------------------------------
(* JSON values, as json.loads and pydantic see them *)

JNull == [t |-> "null", v |-> 0]
JStr(s) == [t |-> "string", v |-> s]
JNum(n) == [t |-> "number", v |-> n]          \* n in hundredths
JArr(a) == [t |-> "array", v |-> a]
JObj(f) == [t |-> "object", v |-> f]
EmptyDict == [k \in {} |-> JNull]

-----------------------------------------------------------------------------
(* core/ocr.py *)

SUPPORTED_PDF_FORMATS == {<<".", "p", "d", "f">>}
SUPPORTED_IMAGE_FORMATS ==
    {<<".", "p", "n", "g">>, <<".", "j", "p", "g">>, <<".", "j", "p", "e", "g">>,
     <<".", "b", "m", "p">>, <<".", "t", "i", "f", "f">>}
SUPPORTED_FORMATS == SUPPORTED_PDF_FORMATS \cup SUPPORTED_IMAGE_FORMATS

SUPPORTED_MIME_TYPES ==
    <<"application/pdf", "image/png", "image/jpeg", "image/bmp", "image/tiff">>

\* Text blocks the recognition engine can return for one page.
BlockA == <<"a">>
BlockSpace == <<" ">>
BlockB == <<"b">>
NoFile == [kind |-> "none", pages |-> <<>>]

\* What happens to one page (or to the single image), if anything raises:
\* "raster" (get_pixmap / Image.frombytes), the name of a preprocessing
\* transform (that transform raises on this page), "readtext" (recognition
\* raises), or "none"; blocks are the text blocks recognition returns.
PageOutcomes ==
    {[fault |-> "readtext", blocks |-> <<>>],
     [fault |-> "none", blocks |-> <<>>],
     [fault |-> "none", blocks |-> <<BlockA>>],
     [fault |-> "none", blocks |-> <<BlockSpace>>]}

PageSeqs == UNION {[1..n -> PageOutcomes] : n \in 0..MaxPages}

\* The uploaded bytes, by what the engines make of them: a PDF that opens,
\* an image that decodes, or bytes that are neither.
Files ==
    {[kind |-> "pdf", pages |-> ps] : ps \in PageSeqs}
    \cup {[kind |-> "image", pages |-> <<p>>] : p \in PageOutcomes}
    \cup {[kind |-> "other", pages |-> <<>>]}

\* Does the try block of one page (or of the image) raise?
PageRaises(page, preprocessing) ==
    page.fault \in {"raster", "readtext"} \/ page.fault = preprocessing

\* reader.readtext is reached unless rasterisation or the transform raised.
PageReadtextCalls(page, preprocessing) ==
    IF page.fault = "raster" \/ page.fault = preprocessing THEN 0 ELSE 1

OcrReturn(text, readtext) == [raised |-> FALSE, text |-> text, readtext |-> readtext]

\* Variant: the handler lets the exception out.
OnPageErrorReraise(acc) == [acc EXCEPT !.raised = TRUE]

\* Variant: the handler starts the block list again.
OnPageErrorDropsBlocks(acc) == [acc EXCEPT !.text_blocks = <<>>]

\* except Exception: print(...); continue
OnPageError(acc) == acc

\* for page_num, page in enumerate(pdf_document): try ... except ... continue
RECURSIVE ProcessPages(_, _, _)
ProcessPages(pages, preprocessing, acc) ==
    IF pages = <<>> \/ acc.raised THEN acc
    ELSE LET page == Head(pages)
             called == [acc EXCEPT !.readtext = @ + PageReadtextCalls(page, preprocessing)]
             after == IF PageRaises(page, preprocessing) THEN OnPageError(called)
                      ELSE [called EXCEPT !.text_blocks = @ \o page.blocks]
         IN  ProcessPages(Tail(pages), preprocessing, after)

\* Variant: every suffix that is not a PDF suffix takes the image branch.
IsImageSuffixAny(file_suffix) == TRUE

\* elif file_suffix in SUPPORTED_IMAGE_FORMATS
IsImageSuffix(file_suffix) == file_suffix \in SUPPORTED_IMAGE_FORMATS

\* The value returned (or raised = TRUE), and the number of readtext calls made.
extract_text_from_document(file_bytes, filename_suffix, preprocessing) ==
    LET file_suffix == Lower(filename_suffix) IN
    IF file_suffix \in SUPPORTED_PDF_FORMATS THEN
        IF file_bytes.kind # "pdf" THEN OcrReturn(<<>>, 0)       \* pymupdf.open raised
        ELSE LET acc == ProcessPages(file_bytes.pages, preprocessing,
                            [raised |-> FALSE, text_blocks |-> <<>>, readtext |-> 0])
             IN  [raised |-> acc.raised,
                  text |-> Join(<<"\n">>, acc.text_blocks),
                  readtext |-> acc.readtext]
    ELSE IF IsImageSuffix(file_suffix) THEN
        IF file_bytes.kind # "image" THEN OcrReturn(<<>>, 0)     \* Image.open raised
        ELSE LET page == file_bytes.pages[1] IN
             IF PageRaises(page, preprocessing)
             THEN OcrReturn(<<>>, PageReadtextCalls(page, preprocessing))
             ELSE OcrReturn(Join(<<"\n">>, page.blocks), 1)
    ELSE OcrReturn(Join(<<"\n">>, <<>>), 0)

-----------------------------------------------------------------------------
(* core/vector_db.py *)

\* ndigits of round(confidence, 2).
Decimals == 2

RECURSIVE Pow10(_)
Pow10(n) == IF n = 0 THEN 1 ELSE 10 * Pow10(n - 1)

\* 1.0 as a distance: distances carry one more decimal than the confidence keeps.
One == Pow10(Decimals + 1)

\* round(x, ndigits): x in units of 1/One, the result in units of 10^-ndigits
\* (ties go to the even neighbour).
Round(x, ndigits) ==
    LET unit == One \div Pow10(ndigits)
        q == x \div unit
        r == x % unit
    IN  IF 2 * r < unit THEN q
        ELSE IF 2 * r > unit THEN q + 1
        ELSE IF q % 2 = 0 THEN q ELSE q + 1

\* Document-type labels found in the index metadata (the corpus directory names).
INVOICE == <<"i", "n", "v", "o", "i", "c", "e">>
InvoiceCapitalised == <<"I", "n", "v", "o", "i", "c", "e">>
MEMO_UPPER == <<"M", "E", "M", "O">>
CONTRACT == <<"c", "o", "n", "t", "r", "a", "c", "t">>
UNKNOWN == <<"U", "n", "k", "n", "o", "w", "n">>
Labels == {INVOICE, InvoiceCapitalised, MEMO_UPPER, CONTRACT}

\* Metadata of a stored record: the builder writes document_type and
\* augmentation; a record written without the document_type key lacks it.
Metadatas ==
    {[document_type |-> l, augmentation |-> "None"] : l \in Labels}
    \cup {[other_key |-> "some_value"]}

\* Cosine distances of the nearest neighbour, in thousandths, over [0, 2].
Distances == {0, 150, 155, 165, 200, One, One + 4, One + (One \div 2), 2 * One}

NotAsked == [kind |-> "not_asked"]

\* What encode() and collection.query(n_results=1) do on one call.
QueryReplies ==
    {[kind |-> "encode_raises"], [kind |-> "query_raises"]}
    \cup {[kind |-> "results",
           results |-> [ids |-> <<<<>>>>, distances |-> <<<<>>>>, metadatas |-> <<<<>>>>]]}
    \cup {[kind |-> "results",
           results |-> [ids |-> <<<<"id1">>>>, distances |-> <<<<d>>>>, metadatas |-> <<<<m>>>>]]
          : d \in Distances, m \in Metadatas}

\* VectorDBClient._load: the outcomes of __init__.
LoadOutcomes == {"loaded", "model_failed", "collection_failed"}

VectorDBClientNew(outcome) ==
    [embedding_model |-> IF outcome = "model_failed" THEN "None" ELSE "SentenceTransformer",
     collection |-> IF outcome = "loaded" THEN "Collection" ELSE "None"]

ErrNotAvailable == "Vector database collection is not available."
ErrQueryFailed == "Failed to query the vector database."

\* Variant: the distance itself is reported as the confidence.
ConfidenceOfDistance(distance) == distance

\* confidence = 1 - distance
ConfidenceOf(distance) == One - distance

\* metadata.get('document_type', 'Unknown')
DocTypeOf(metadata) ==
    IF "document_type" \in DOMAIN metadata THEN metadata.document_type ELSE UNKNOWN

\* Variant: the guard tests the embedding model instead of the collection.
CollectionMissingChecksModel(self) == self.embedding_model = "None"

\* if self.collection is None
CollectionMissing(self) == self.collection = "None"

\* Variant: the handler reports the collection as unavailable.
OnQueryExceptionNotAvailable == [error |-> ErrNotAvailable]

\* except Exception: return {"error": "Failed to query the vector database."}
OnQueryException == [error |-> ErrQueryFailed]

\* find_document_type: the value returned and the collaborator calls made.
find_document_type(self, reply) ==
    IF CollectionMissing(self) THEN
        [result |-> [error |-> ErrNotAvailable], calls |-> <<>>]
    ELSE IF self.embedding_model = "None" \/ reply.kind = "encode_raises" THEN
        [result |-> OnQueryException, calls |-> <<"encode">>]
    ELSE IF reply.kind = "query_raises" THEN
        [result |-> OnQueryException, calls |-> <<"encode", "query">>]
    ELSE LET results == reply.results IN
        IF results.ids[1] = <<>> THEN
            [result |-> [document_type |-> UNKNOWN, confidence |-> 0],
             calls |-> <<"encode", "query">>]
        ELSE
            LET distance == results.distances[1][1]
                confidence == ConfidenceOf(distance)
                metadata == results.metadatas[1][1]
                doc_type == DocTypeOf(metadata)
            IN  [result |-> [document_type |-> doc_type,
                             confidence |-> Round(confidence, Decimals)],
                 calls |-> <<"encode", "query">>]

-----------------------------------------------------------------------------
(* core/llm.py *)

\* The keys of DOCUMENT_SCHEMAS (the field lists only feed the prompt).
DOCUMENT_SCHEMAS ==
    {<<"a", "d", "v", "e", "r", "t", "i", "s", "e", "m", "e", "n", "t">>,
     <<"b", "u", "d", "g", "e", "t">>,
     <<"e", "m", "a", "i", "l">>,
     <<"f", "i", "l", "e", "_", "f", "o", "l", "d", "e", "r">>,
     <<"f", "o", "r", "m">>,
     <<"h", "a", "n", "d", "w", "r", "i", "t", "t", "e", "n">>,
     <<"i", "n", "v", "o", "i", "c", "e">>,
     <<"l", "e", "t", "t", "e", "r">>,
     <<"m", "e", "m", "o">>,
     <<"n", "e", "w", "s", "_", "a", "r", "t", "i", "c", "l", "e">>,
     <<"p", "r", "e", "s", "e", "n", "t", "a", "t", "i", "o", "n">>,
     <<"q", "u", "e", "s", "t", "i", "o", "n", "n", "a", "i", "r", "e">>,
     <<"r", "e", "c", "e", "i", "p", "t">>,
     <<"r", "e", "s", "u", "m", "e">>,
     <<"s", "c", "i", "e", "n", "t", "i", "f", "i", "c", "_", "p", "u", "b", "l", "i", "c", "a", "t", "i", "o", "n">>,
     <<"s", "c", "i", "e", "n", "t", "i", "f", "i", "c", "_", "r", "e", "p", "o", "r", "t">>,
     <<"s", "p", "e", "c", "i", "f", "i", "c", "a", "t", "i", "o", "n">>}

ErrConnect == "Failed to connect to the local LLM service."
ErrMalformed == "LLM returned a malformed response."

\* Completions the model can put in the 'response' key of its reply.
TextEmptyObject == "{}"
TextNotJson == "This is not valid JSON."
TextTruncated == "{\"invoice_number\": "
TextEntity == "{\"invoice_number\": {\"value\": \"INV-123\", \"confidence\": 0.9}}"
TextEntityNullValue == "{\"invoice_number\": {\"value\": null, \"confidence\": 0.5}}"
TextEntityConfidenceHigh == "{\"invoice_number\": {\"value\": \"INV-123\", \"confidence\": 1.5}}"
TextFieldNull == "{\"invoice_number\": null}"
TextFlat == "{\"invoice_number\": \"INV-007\"}"
TextErrorKey == "{\"error\": \"no fields found\"}"
TextArray == "[]"
TextNumber == "42"
TextString == "\"error\""
TextNull == "null"

ResponseTexts ==
    {TextEmptyObject, TextNotJson, TextTruncated, TextEntity, TextEntityNullValue, TextEntityConfidenceHigh,
     TextFieldNull, TextFlat, TextErrorKey, TextArray, TextNumber, TextString, TextNull}

Entity(value, confidence) == JObj([value |-> value, confidence |-> JNum(confidence)])

\* json.loads(text): [ok |-> TRUE, value |-> v], or ok = FALSE for JSONDecodeError.
json_loads(text) ==
    CASE text = TextEmptyObject -> [ok |-> TRUE, value |-> JObj(EmptyDict)]
      [] text = TextEntity ->
            [ok |-> TRUE, value |-> JObj([invoice_number |-> Entity(JStr("INV-123"), 90)])]
      [] text = TextEntityNullValue ->
            [ok |-> TRUE, value |-> JObj([invoice_number |-> Entity(JNull, 50)])]
      [] text = TextEntityConfidenceHigh ->
            [ok |-> TRUE, value |-> JObj([invoice_number |-> Entity(JStr("INV-123"), 150)])]
      [] text = TextFieldNull -> [ok |-> TRUE, value |-> JObj([invoice_number |-> JNull])]
      [] text = TextFlat -> [ok |-> TRUE, value |-> JObj([invoice_number |-> JStr("INV-007")])]
      [] text = TextErrorKey -> [ok |-> TRUE, value |-> JObj([error |-> JStr("no fields found")])]
      [] text = TextArray -> [ok |-> TRUE, value |-> JArr(<<>>)]
      [] text = TextNumber -> [ok |-> TRUE, value |-> JNum(42 * Pow10(Decimals))]
      [] text = TextString -> [ok |-> TRUE, value |-> JStr("error")]
      [] text = TextNull -> [ok |-> TRUE, value |-> JNull]
      [] OTHER -> [ok |-> FALSE, value |-> JNull]

\* What requests.post and the reply's methods do on one call.  A body that is
\* not JSON makes response.json() raise requests' JSONDecodeError, which is a
\* RequestException as well as a json.JSONDecodeError (requests 2.27 and
\* later), or the plain json.JSONDecodeError (earlier releases).
LlmReplies ==
    {[kind |-> "post_raises", exc |-> e] : e \in {"ConnectionError", "Timeout"}}
    \cup {[kind |-> "status_raises", exc |-> "HTTPError"]}
    \cup {[kind |-> "body_not_json", exc |-> e]
          : e \in {"requests.JSONDecodeError", "json.JSONDecodeError"}}
    \cup {[kind |-> "body", body |-> JArr(<<>>)]}
    \cup {[kind |-> "body", body |-> JObj(EmptyDict)]}
    \cup {[kind |-> "body", body |-> JObj([response |-> JStr(text)])] : text \in ResponseTexts}

Returned(value, calls) == [raised |-> FALSE, value |-> value, calls |-> calls]
Raised(exc, calls) == [raised |-> TRUE, value |-> [t |-> "exception", v |-> exc], calls |-> calls]
ErrorDict(message) == JObj([error |-> JStr(message)])

\* Variant: the label is looked up as given.
SchemaKeyAsGiven(document_type) == document_type

\* document_type.lower()
SchemaKey(document_type) == Lower(document_type)

\* Variant: the handler posts once more before giving up.
OnRequestExceptionRetry(calls) == Returned(ErrorDict(ErrConnect), calls \o <<"post">>)

\* except requests.exceptions.RequestException
OnRequestException(calls) == Returned(ErrorDict(ErrConnect), calls)

\* Variant: a decoding error is reported as a connection failure.
OnJSONDecodeErrorAsConnect(calls, response_text_bound) == Returned(ErrorDict(ErrConnect), calls)

\* except json.JSONDecodeError: the handler prints response_text, which is
\* unbound when response.json() itself raised.
OnJSONDecodeError(calls, response_text_bound) ==
    IF response_text_bound THEN Returned(ErrorDict(ErrMalformed), calls)
    ELSE Raised("UnboundLocalError", calls)

\* The try block of extract_entities_with_llm and its two handlers.
CallModel(reply) ==
    IF reply.kind \in {"post_raises", "status_raises"} THEN
        OnRequestException(<<"post">>)
    ELSE IF reply.kind = "body_not_json" THEN
        IF reply.exc = "requests.JSONDecodeError"
        THEN OnRequestException(<<"post">>)
        ELSE OnJSONDecodeError(<<"post">>, FALSE)
    ELSE IF reply.body.t # "object" THEN
        Raised("AttributeError", <<"post">>)          \* .get on a non-dict
    ELSE
        LET response_text ==
                IF "response" \in DOMAIN reply.body.v
                THEN reply.body.v.response.v ELSE TextEmptyObject
            parsed == json_loads(response_text)
        IN  IF parsed.ok THEN Returned(parsed.value, <<"post">>)
            ELSE OnJSONDecodeError(<<"post">>, TRUE)

extract_entities_with_llm(document_type, reply) ==
    IF SchemaKey(document_type) \notin DOCUMENT_SCHEMAS
    THEN Returned(JObj(EmptyDict), <<>>)
    ELSE CallModel(reply)

-----------------------------------------------------------------------------
(* api/schemas.py *)

\* Field(..., ge=0, le=1) on a float in hundredths.
InUnitRange(x) == 0 <= x /\ x <= Pow10(Decimals)

\* ConfidenceValue: value required (nullable), confidence a float in [0, 1].
IsConfidenceValue(j) ==
    /\ j.t = "object"
    /\ {"value", "confidence"} \subseteq DOMAIN j.v
    /\ j.v.confidence.t = "number"
    /\ InUnitRange(j.v.confidence.v)

\* entities: Dict[str, Optional[ConfidenceValue]]
IsEntitiesDict(j) ==
    /\ j.t = "object"
    /\ \A k \in DOMAIN j.v : j.v[k].t = "null" \/ IsConfidenceValue(j.v[k])

\* ExtractionResponse(...) validates; document_type is always a str here.
ExtractionResponseValid(confidence, ents) ==
    InUnitRange(confidence) /\ IsEntitiesDict(ents)

-----------------------------------------------------------------------------
(* api/endpoints.py *)

NoBody == [none |-> TRUE]
NoResult == [none |-> TRUE]
NoResponse == [status |-> 0, detail |-> JNull, body |-> NoBody]
NoEntities == [raised |-> FALSE, value |-> [t |-> "unset", v |-> 0], calls |-> <<>>]
NoRequest == [content_type |-> "None", suffix |-> <<>>]

HTTPException(status_code, detail) == [status |-> status_code, detail |-> detail, body |-> NoBody]
\* An exception that leaves the handler: the server answers 500 without a detail.
Unhandled(exc) == [status |-> 500, detail |-> [t |-> "unhandled", v |-> exc], body |-> NoBody]

InvalidFileType == "Invalid file type"
ErrNoText == "Could not extract any text from the document."

\* Declared content types of an upload ("None": the part carries no Content-Type).
ContentTypes ==
    {SUPPORTED_MIME_TYPES[i] : i \in DOMAIN SUPPORTED_MIME_TYPES} \cup {"text/plain", "None"}

\* Path(filename).suffix of the uploads.
Suffixes ==
    {<<".", "p", "d", "f">>, <<".", "P", "D", "F">>, <<".", "p", "n", "g">>,
     <<".", "t", "i", "f">>, <<".", "t", "x", "t">>}

\* Variant: any declared content type passes.
ContentTypeDeclared(content_type) == content_type # "None"

\* file.content_type in SUPPORTED_MIME_TYPES
ContentTypeSupported(content_type) ==
    \E i \in DOMAIN SUPPORTED_MIME_TYPES : SUPPORTED_MIME_TYPES[i] = content_type

\* Variant: the text is tested without strip().
NoTextExtractedUnstripped(text) == text = <<>>

\* not extracted_text.strip()
NoTextExtracted(text) == Strip(text) = <<>>

\* "error" in classification_result
ClassificationFailed(result) == "error" \in DOMAIN result

\* Variant: the handler looks for the key "errors".
ErrorInWrongKey(j) == j.t = "object" /\ "errors" \in DOMAIN j.v

\* "error" in entities, for what json.loads can return: key lookup in a dict,
\* element lookup in a list, substring search in a str.
ErrorIn(j) ==
    CASE j.t = "object" -> "error" \in DOMAIN j.v
      [] j.t = "array" -> \E i \in DOMAIN j.v : j.v[i] = JStr("error")
      [] j.t = "string" -> j.v = "error"
      [] OTHER -> FALSE

\* Steps 4 and 5 of the handler, from the extractor's outcome to the response.
RespondAfterExtraction(result, outcome) ==
    IF outcome.raised THEN Unhandled(outcome.value.v)
    ELSE LET ents == outcome.value IN
        IF ents.t \in {"number", "null"} THEN Unhandled("TypeError")
        ELSE IF ErrorIn(ents) THEN
            IF ents.t = "object" THEN HTTPException(500, ents.v.error)
            ELSE Unhandled("TypeError")
        ELSE IF ~ExtractionResponseValid(result.confidence, ents)
        THEN Unhandled("ValidationError")
        ELSE [status |-> 200,
              detail |-> JNull,
              body |-> [document_type |-> result.document_type,
                        confidence |-> result.confidence,
                        entities |-> ents,
                        processing_time |-> FString(<<"elapsed", "s">>)]]

\* Variant: every call constructs a client.
get_vector_db_client_uncached(cached, outcome) == <<VectorDBClientNew(outcome)>>

\* @lru_cache: the first call constructs the client, later calls return it.
get_vector_db_client(cached, outcome) ==
    IF cached = <<>> THEN <<VectorDBClientNew(outcome)>> ELSE cached

-----------------------------------------------------------------------------
(* core/utils.py *)

\* A PIL image: its size as image.size gives it, its mode, and whether any
\* pixel differs from white.
Images ==
    {[width |-> w, height |-> h, mode |-> m, ink |-> i] :
        w \in 1..MaxSide, h \in 1..MaxSide, m \in {"RGB", "L", "1"}, i \in BOOLEAN}

\* What cv2.minAreaRect does with the coordinates of the ink pixels: a
\* rectangle with an angle in whole degrees, or, for no pixel at all, either
\* the empty rectangle or an assertion error, depending on the build.
RectOutcomes(image) ==
    IF image.ink
    THEN {[raises |-> FALSE, angle |-> a] : a \in -90..90}
    ELSE {[raises |-> FALSE, angle |-> 0], [raises |-> TRUE, angle |-> 0]}

TransformReturn(width, height, mode) ==
    [raised |-> FALSE, width |-> width, height |-> height, mode |-> mode,
     angle |-> 0, center |-> <<0, 0>>]
TransformRaise == [TransformReturn(0, 0, "none") EXCEPT !.raised = TRUE]

\* noise_reduction: convert('L'), medianBlur, Image.fromarray.
noise_reduction(image) == TransformReturn(image.width, image.height, "L")

\* adaptive_thresholding: convert('L'), adaptiveThreshold, Image.fromarray.
adaptive_thresholding(image) == TransformReturn(image.width, image.height, "L")

\* Variant: the fold takes -45 as well.
NormaliseAngleInclusive(angle) == IF angle <= -45 THEN -(90 + angle) ELSE -angle

\* if angle < -45: angle = -(90 + angle) else: angle = -angle
NormaliseAngle(angle) == IF angle < -45 THEN -(90 + angle) ELSE -angle

\* deskew.  image.size is (width, height) and is unpacked as (h, w); center
\* and dsize are (x, y) and (width, height) for OpenCV.  np.array of a mode
\* "1" image is an array of bool, which cv2.warpAffine does not take.
deskew(image, rect) ==
    IF rect.raises THEN TransformRaise
    ELSE LET angle == NormaliseAngle(rect.angle)
             h == image.width
             w == image.height
             center == <<w \div 2, h \div 2>>
             dsize == <<w, h>>
         IN  IF image.mode = "1" THEN TransformRaise
             ELSE [raised |-> FALSE, width |-> dsize[1], height |-> dsize[2],
                   mode |-> image.mode, angle |-> angle, center |-> center]

NoTransformCall ==
    [name |-> "none", image |-> [width |-> 1, height |-> 1, mode |-> "L", ink |-> FALSE],
     rect |-> [raises |-> FALSE, angle |-> 0], returned |-> FALSE,
     result |-> TransformReturn(0, 0, "none")]

-----------------------------------------------------------------------------
(* scripts/build_vector_db.py *)

DB_PATH == <<"data", "chroma_db">>
SAMPLE_DOCS_PATH == <<"data", "sample_docs">>
DB_BATCH_SIZE == 4096

\* [None, 'deskew', 'noise', 'threshold'], each as str() gives it.
PREPROCESSING_OPTIONS == <<"None", "deskew", "noise", "threshold">>

\* The collections of the model hold a handful of records: the chunk size is
\* DB_BATCH_SIZE capped at MaxBatch, so that a build needs several chunks.
BatchSize == IF DB_BATCH_SIZE < MaxBatch THEN DB_BATCH_SIZE ELSE MaxBatch

\* A pathlib.Path relative to the working directory: the directories down to
\* the file, and the file's name as characters.
PathUnder(dirs, filename) == [parent |-> SAMPLE_DOCS_PATH \o dirs, filename |-> filename]

Last(seq) == seq[Len(seq)]

\* p.parent.name
ParentName(p) == Last(p.parent)

\* p.suffix: the file name from its last dot on ("" without one).
Suffix(p) ==
    LET dots == {i \in DOMAIN p.filename : p.filename[i] = "." /\ i > 1} IN
    IF dots = {} THEN <<>>
    ELSE LET d == CHOOSE i \in dots : \A j \in dots : j <= i
         IN  SubSeq(p.filename, d, Len(p.filename))

\* str(doc_path) joins the components with the separator, Path(s) splits at it:
\* the text is kept as its components.
StrOfPath(p) == [dirs |-> p.parent, base |-> p.filename]
PathOfStr(str) == [parent |-> str.dirs, filename |-> str.base]

\* all_doc_paths, from the files SAMPLE_DOCS_PATH.rglob('*') yields.
AllDocPaths(files) ==
    {p \in files : /\ ParentName(p) # Last(DB_PATH)
                   /\ Lower(Suffix(p)) \in SUPPORTED_FORMATS}

\* What a worker finds in a corpus file: bytes as in Files, or a file that
\* cannot be opened.
Unreadable == [kind |-> "unreadable", pages |-> <<>>]

WorkerResult(records) == [none |-> FALSE, records |-> records]
ResultNone == [none |-> TRUE, records |-> <<>>]

\* if result_list: None and [] are both false.
Truthy(result_list) == ~result_list.none /\ result_list.records # <<>>

\* The loop of ocr_worker over PREPROCESSING_OPTIONS, from option i on; raised
\* when extract_text_from_document raises.
RECURSIVE ResultsPerFile(_, _, _)
ResultsPerFile(doc_path, file_bytes, i) ==
    IF i > Len(PREPROCESSING_OPTIONS) THEN WorkerResult(<<>>)
    ELSE LET transformation == PREPROCESSING_OPTIONS[i]
             r == extract_text_from_document(file_bytes, Suffix(doc_path), transformation)
             rest == ResultsPerFile(doc_path, file_bytes, i + 1)
         IN  IF r.raised \/ rest.none THEN ResultNone
             ELSE IF Strip(r.text) # <<>>
             THEN WorkerResult(
                    <<[text |-> r.text,
                       metadata |-> [document_type |-> ParentName(doc_path),
                                     augmentation |-> transformation],
                       source_file |-> StrOfPath(doc_path)]>> \o rest.records)
             ELSE rest

\* ocr_worker: the records of one file, [] when no variant gives text, None
\* when anything raises.
ocr_worker(doc_path, file_bytes) ==
    IF file_bytes = Unreadable THEN ResultNone
    ELSE ResultsPerFile(doc_path, file_bytes, 1)

\* A line of the checkpoint: json.dumps(result) + "\n", or what an abrupt
\* shutdown leaves of one.
JsonLine(record) == [json |-> TRUE, data |-> record]
TruncatedLine == [json |-> FALSE]

NoCheckpoint == [is_file |-> FALSE, lines |-> <<>>]

\* The first pass over the checkpoint: json.loads inside try, lines that do
\* not parse are skipped with a warning.
ParsedLines(lines) ==
    SelectSeq(lines, LAMBDA line : line.json /\ "source_file" \in DOMAIN line.data)

LoadedRecords(cp) ==
    IF cp.is_file
    THEN LET parsed == ParsedLines(cp.lines) IN [i \in DOMAIN parsed |-> parsed[i].data]
    ELSE <<>>

ProcessedPaths(cp) ==
    LET loaded == LoadedRecords(cp)
    IN  {PathOfStr(loaded[i].source_file) : i \in DOMAIN loaded}

\* Variant: every corpus file is a task again.
RemainingPathsAll(all, processed) == all

\* remaining_paths = list(all_doc_paths - processed_paths)
RemainingPaths(all, processed) == all \ processed

\* [json.loads(line) for line in f if line.strip()]: json.loads outside any
\* try, so a line that does not parse raises JSONDecodeError.
Reload(lines) ==
    IF \E i \in DOMAIN lines : ~lines[i].json
    THEN [raised |-> TRUE, texts |-> <<>>]
    ELSE [raised |-> FALSE, texts |-> [i \in DOMAIN lines |-> lines[i].data]]

\* Variant: the handle truncates the file.
OpenForWriting(cp) == [is_file |-> TRUE, lines |-> <<>>]

\* open(CHECKPOINT_FILE, "a"): creates the file, keeps what it holds.
OpenForAppending(cp) == [is_file |-> TRUE, lines |-> cp.lines]

\* Variant: what was written never leaves the handle's buffer.
NotFlushed(cp, buffer) == cp

\* f_out.flush(), and the close at the end of the with block.
Flushed(cp, buffer) == [is_file |-> TRUE, lines |-> cp.lines \o buffer]

\* Variant: the results of a task go before the records already loaded.
ExtendedInFront(texts, result_list) == result_list \o texts

\* texts_to_process.extend(result_list)
Extended(texts, result_list) == texts \o result_list

NoTask == [source_file |-> <<>>, result |-> ResultNone, written |-> 0]

\* model.encode: one vector per sentence, here named by its sentence.
Embedding(text) == [vector_of |-> text]

\* Variant: every chunk numbers its records from 0.
ChunkIdsFromZero(i, end_i) == [j \in 1..(end_i - i) |-> <<"id_", j - 1>>]

\* [f"id_{j}" for j in range(i, end_i)]
ChunkIds(i, end_i) == [j \in 1..(end_i - i) |-> <<"id_", i + j - 1>>]

\* The arguments of collection.add for the chunk that starts at record i
\* (0-based).
Chunk(embs, texts, i) ==
    LET total_items == Len(texts)
        end_i == IF i + BatchSize < total_items THEN i + BatchSize ELSE total_items
    IN  [embeddings |-> SubSeq(embs, i + 1, end_i),
         metadatas |-> [j \in 1..(end_i - i) |-> texts[i + j].metadata],
         ids |-> ChunkIds(i, end_i)]

\* collection.add that returns: the entries of the chunk are in the
\* collection; an id the collection already holds keeps its entry.
Added(entries, chunk) ==
    entries \cup
        {[id |-> chunk.ids[j], embedding |-> chunk.embeddings[j],
          metadata |-> chunk.metadatas[j]] :
            j \in {i \in DOMAIN chunk.ids :
                        \A entry \in entries : entry.id # chunk.ids[i]}}

\* Variant: after a failure the loop goes on to the next chunk.
OnInsertErrorContinue == "add"

\* except Exception: print FATAL ERROR; return
OnInsertError == "aborted"

\* The builder is not running.
BuilderIdle(files) ==
    /\ tree = files
    /\ checkpoint = NoCheckpoint
    /\ before = <<>>
    /\ bpc = "idle"
    /\ runs = 0
    /\ all_doc_paths = {}
    /\ processed_paths = {}
    /\ remaining_paths = {}
    /\ texts_to_process = <<>>
    /\ pending = {}
    /\ ready = {}
    /\ current = NoTask
    /\ f_out = <<>>
    /\ acknowledged = {}
    /\ earlier = {}
    /\ embeddings = <<>>
    /\ add_calls = <<>>
    /\ collection = {}

NoOcrCall == [suffix |-> <<>>, preprocessing |-> "None", file |-> NoFile,
              returned |-> FALSE, result |-> OcrReturn(<<>>, 0)]

-----------------------------------------------------------------------------
(* The service *)

ServiceIdle ==
    /\ cache = <<>>
    /\ readers = 1              \* core/ocr.py creates one Reader at import
    /\ pc = "idle"
    /\ request = NoRequest
    /\ file = NoFile
    /\ trace = <<>>
    /\ extracted_text = <<>>
    /\ query_reply = NotAsked
    /\ classification_result = NoResult
    /\ llm_reply = NotAsked
    /\ entities = NoEntities
    /\ response = NoResponse

Init ==
    /\ ServiceIdle
    /\ ocr_call = NoOcrCall
    /\ transform_call = NoTransformCall
    /\ BuilderIdle({})

\* A request arrives at POST /extract_entities/.
Receive ==
    /\ pc \in {"idle", "done"}
    /\ readers < MaxReaders
    /\ \E ct \in ContentTypes, sfx \in Suffixes :
            request' = [content_type |-> ct, suffix |-> sfx]
    /\ pc' = "depends"
    /\ file' = NoFile
    /\ trace' = <<>>
    /\ extracted_text' = <<>>
    /\ query_reply' = NotAsked
    /\ classification_result' = NoResult
    /\ llm_reply' = NotAsked
    /\ entities' = NoEntities
    /\ response' = NoResponse
    /\ UNCHANGED <<cache, readers>>
    /\ UNCHANGED <<ocr_call, transform_call, buildvars>>

\* Depends(get_vector_db_client) is resolved before the handler body runs.
ResolveDependency ==
    /\ pc = "depends"
    /\ \E outcome \in LoadOutcomes : cache' = get_vector_db_client(cache, outcome)
    /\ pc' = "validate"
    /\ UNCHANGED <<readers, request, file, trace, extracted_text, query_reply,
                   classification_result, llm_reply, entities, response>>
    /\ UNCHANGED <<ocr_call, transform_call, buildvars>>

\* 1. Validate the declared content type.
ValidateContentType ==
    /\ pc = "validate"
    /\ IF ~ContentTypeSupported(request.content_type)
       THEN /\ response' = HTTPException(400,
                    FString(<<InvalidFileType, ". Supported types are: ">>
                            \o Join(<<", ">>, [i \in DOMAIN SUPPORTED_MIME_TYPES |->
                                                    <<SUPPORTED_MIME_TYPES[i]>>])))
            /\ pc' = "done"
       ELSE /\ response' = response
            /\ pc' = "ocr"
    /\ UNCHANGED <<cache, readers, request, file, trace, extracted_text, query_reply,
                   classification_result, llm_reply, entities>>
    /\ UNCHANGED <<ocr_call, transform_call, buildvars>>

\* file.read(), then 2. OCR; called without a reader, extract_text_from_document
\* creates one.
ReadAndOcr ==
    /\ pc = "ocr"
    /\ \E f \in Files :
        LET r == extract_text_from_document(f, request.suffix, "None") IN
        /\ file' = f
        /\ extracted_text' = r.text
        /\ IF r.raised
           THEN /\ response' = Unhandled("Exception")
                /\ pc' = "done"
           ELSE IF NoTextExtracted(r.text)
           THEN /\ response' = HTTPException(422, JStr(ErrNoText))
                /\ pc' = "done"
           ELSE /\ response' = response
                /\ pc' = "classify"
    /\ trace' = trace \o <<"read", "extract_text_from_document">>
    /\ readers' = readers + 1
    /\ UNCHANGED <<cache, request, query_reply, classification_result, llm_reply, entities>>
    /\ UNCHANGED <<ocr_call, transform_call, buildvars>>

\* 3. Classify the document type.
Classify ==
    /\ pc = "classify"
    /\ \E reply \in QueryReplies :
        LET r == find_document_type(cache[1], reply) IN
        /\ query_reply' = IF r.calls = <<>> THEN NotAsked ELSE reply
        /\ classification_result' = r.result
        /\ trace' = trace \o <<"find_document_type">> \o r.calls
        /\ IF ClassificationFailed(r.result)
           THEN /\ response' = HTTPException(500, JStr(r.result.error))
                /\ pc' = "done"
           ELSE /\ response' = response
                /\ pc' = "extract"
    /\ file' = NoFile           \* file_bytes is dead once OCR has returned
    /\ UNCHANGED <<cache, readers, request, extracted_text, llm_reply, entities>>
    /\ UNCHANGED <<ocr_call, transform_call, buildvars>>

\* 4. Extract the entities, then build the response.
ExtractEntities ==
    /\ pc = "extract"
    /\ \E reply \in LlmReplies :
        LET r == extract_entities_with_llm(classification_result.document_type, reply) IN
        /\ llm_reply' = IF r.calls = <<>> THEN NotAsked ELSE reply
        /\ entities' = r
        /\ trace' = trace \o <<"extract_entities_with_llm">> \o r.calls
        /\ response' = RespondAfterExtraction(classification_result, r)
    /\ pc' = "done"
    /\ UNCHANGED <<cache, readers, request, file, extracted_text, query_reply,
                   classification_result>>
    /\ UNCHANGED <<ocr_call, transform_call, buildvars>>

Next ==
    \/ Receive
    \/ ResolveDependency
    \/ ValidateContentType
    \/ ReadAndOcr
    \/ Classify
    \/ ExtractEntities

Spec == Init /\ [][Next]_vars

-----------------------------------------------------------------------------
(* The OCR adapter, called on its own *)

\* Pages as the PDF engine, the transforms and the recogniser can treat them.
OcrPageOutcomes ==
    {[fault |-> "none", blocks |-> <<>>],
     [fault |-> "none", blocks |-> <<BlockA>>],
     [fault |-> "none", blocks |-> <<BlockA, BlockB>>],
     [fault |-> "none", blocks |-> <<BlockSpace>>],
     [fault |-> "raster", blocks |-> <<BlockA>>],
     [fault |-> "deskew", blocks |-> <<BlockB>>],
     [fault |-> "readtext", blocks |-> <<BlockA>>]}

OcrFiles ==
    {[kind |-> "pdf", pages |-> ps] :
        ps \in UNION {[1..n -> OcrPageOutcomes] : n \in 0..MaxPages}}
    \cup {[kind |-> "image", pages |-> <<p>>] : p \in OcrPageOutcomes}
    \cup {[kind |-> "other", pages |-> <<>>]}

\* The preprocessing argument: the options of the builder, and a name the
\* function does not know.
PreprocessingArgs == {PREPROCESSING_OPTIONS[i] : i \in DOMAIN PREPROCESSING_OPTIONS}
                     \cup {"denoise"}

InitOcr ==
    /\ ServiceIdle
    /\ transform_call = NoTransformCall
    /\ BuilderIdle({})
    /\ \E sfx \in Suffixes, pre \in PreprocessingArgs, f \in OcrFiles :
            ocr_call = [NoOcrCall EXCEPT !.suffix = sfx, !.preprocessing = pre, !.file = f]

\* extract_text_from_document(file_bytes, filename, reader, preprocessing)
CallOcr ==
    /\ ~ocr_call.returned
    /\ ocr_call' = [ocr_call EXCEPT
            !.returned = TRUE,
            !.result = extract_text_from_document(ocr_call.file, ocr_call.suffix,
                                                  ocr_call.preprocessing)]
    /\ UNCHANGED <<reqvars, transform_call, buildvars>>

SpecOcr == InitOcr /\ [][CallOcr]_vars

-----------------------------------------------------------------------------
(* The preprocessing transforms, called on their own *)

InitTransform ==
    /\ ServiceIdle
    /\ ocr_call = NoOcrCall
    /\ BuilderIdle({})
    /\ \E name \in {"noise_reduction", "adaptive_thresholding", "deskew"}, image \in Images :
        \E rect \in RectOutcomes(image) :
            transform_call = [NoTransformCall EXCEPT !.name = name, !.image = image,
                                                     !.rect = rect]

\* noise_reduction(image), adaptive_thresholding(image) or deskew(image)
CallTransform ==
    /\ ~transform_call.returned
    /\ transform_call' = [transform_call EXCEPT
            !.returned = TRUE,
            !.result = CASE transform_call.name = "noise_reduction" ->
                                noise_reduction(transform_call.image)
                         [] transform_call.name = "adaptive_thresholding" ->
                                adaptive_thresholding(transform_call.image)
                         [] OTHER -> deskew(transform_call.image, transform_call.rect)]
    /\ UNCHANGED <<reqvars, ocr_call, buildvars>>

SpecTransform == InitTransform /\ [][CallTransform]_vars

-----------------------------------------------------------------------------
(* The index builder: main() of scripts/build_vector_db.py, run after run *)

\* The files under SAMPLE_DOCS_PATH that an enumeration can meet.
CorpusCandidates ==
    {PathUnder(<<"invoice">>, <<"a", ".", "p", "d", "f">>),
     PathUnder(<<"invoice">>, <<"b", ".", "P", "N", "G">>),
     PathUnder(<<"memo">>, <<"c", ".", "t", "x", "t">>),
     PathUnder(<<>>, <<"d", ".", "j", "p", "g">>),
     PathUnder(<<"chroma_db">>, <<"e", ".", "p", "n", "g">>),
     PathUnder(<<"chroma_db", "index">>, <<"f", ".", "p", "n", "g">>),
     PathUnder(<<"memo", "chroma_db">>, <<"g", ".", "p", "d", "f">>)}

\* The corpus of the build runs.
BuildTree ==
    {PathUnder(<<"invoice">>, <<"a", ".", "p", "n", "g">>),
     PathUnder(<<"memo">>, <<"b", ".", "P", "N", "G">>),
     PathUnder(<<"memo">>, <<"c", ".", "t", "x", "t">>)}

\* What the workers can find in a corpus file.
BuildFiles ==
    {[kind |-> "image", pages |-> <<[fault |-> "none", blocks |-> <<BlockA>>]>>],
     [kind |-> "image", pages |-> <<[fault |-> "none", blocks |-> <<BlockSpace>>]>>],
     [kind |-> "image", pages |-> <<[fault |-> "deskew", blocks |-> <<BlockA>>]>>],
     Unreadable}

RunOver ==
    bpc \in {"idle", "no_documents", "no_text", "crashed", "interrupted", "killed",
             "aborted", "finished"}

\* main() up to remaining_paths: the corpus, then the first pass over the
\* checkpoint.
StartRun ==
    /\ RunOver
    /\ runs < MaxRuns
    /\ runs' = runs + 1
    /\ before' = checkpoint.lines
    /\ earlier' = earlier \cup acknowledged
    /\ acknowledged' = {}
    /\ all_doc_paths' = AllDocPaths(tree)
    /\ IF all_doc_paths' = {}
       THEN /\ bpc' = "no_documents"
            /\ processed_paths' = {}
            /\ texts_to_process' = <<>>
            /\ remaining_paths' = {}
       ELSE /\ bpc' = "reload"
            /\ processed_paths' = ProcessedPaths(checkpoint)
            /\ texts_to_process' = LoadedRecords(checkpoint)
            /\ remaining_paths' = RemainingPaths(all_doc_paths', processed_paths')
    /\ pending' = {}
    /\ ready' = {}
    /\ current' = NoTask
    /\ f_out' = <<>>
    /\ embeddings' = <<>>
    /\ add_calls' = <<>>
    /\ UNCHANGED <<tree, checkpoint, collection>>
    /\ UNCHANGED <<reqvars, ocr_call, transform_call>>

\* The second read of the checkpoint in either branch, then the pool and the
\* append handle when work remains.
ReloadCheckpoint ==
    /\ bpc = "reload"
    /\ LET r == Reload(checkpoint.lines) IN
       IF remaining_paths = {}
       THEN /\ IF r.raised
               THEN /\ bpc' = "crashed"
                    /\ texts_to_process' = texts_to_process
               ELSE /\ texts_to_process' = r.texts
                    /\ bpc' = IF r.texts = <<>> THEN "no_text" ELSE "embed"
            /\ UNCHANGED <<checkpoint, pending>>
       ELSE IF checkpoint.is_file /\ r.raised
       THEN /\ bpc' = "crashed"
            /\ UNCHANGED <<checkpoint, pending, texts_to_process>>
       ELSE /\ texts_to_process' = IF checkpoint.is_file THEN r.texts ELSE texts_to_process
            /\ checkpoint' = OpenForAppending(checkpoint)
            /\ pending' = remaining_paths
            /\ bpc' = "ocr"
    /\ UNCHANGED <<tree, before, runs, all_doc_paths, processed_paths, remaining_paths,
                   ready, current, f_out, acknowledged, earlier, embeddings, add_calls, collection>>
    /\ UNCHANGED <<reqvars, ocr_call, transform_call>>

\* A worker process finishes one task.
WorkerFinishes ==
    /\ bpc = "ocr"
    /\ \E doc_path \in pending, file_bytes \in BuildFiles :
        /\ pending' = pending \ {doc_path}
        /\ ready' = ready \cup {[source_file |-> doc_path,
                                 result |-> ocr_worker(doc_path, file_bytes)]}
    /\ UNCHANGED <<tree, checkpoint, before, bpc, runs, all_doc_paths, processed_paths,
                   remaining_paths, texts_to_process, current, f_out, acknowledged,
                   earlier, embeddings, add_calls, collection>>
    /\ UNCHANGED <<reqvars, ocr_call, transform_call>>

\* for result_list in pool.imap_unordered(...): the next result, in any order.
TakeResult ==
    /\ bpc = "ocr"
    /\ current = NoTask
    /\ \E task \in ready :
        /\ ready' = ready \ {task}
        /\ IF Truthy(task.result)
           THEN /\ texts_to_process' = Extended(texts_to_process, task.result.records)
                /\ current' = [source_file |-> task.source_file, result |-> task.result,
                               written |-> 0]
                /\ acknowledged' = acknowledged
           ELSE /\ texts_to_process' = texts_to_process
                /\ current' = NoTask
                /\ acknowledged' = acknowledged \cup {task}       \* pbar.update(1)
    /\ UNCHANGED <<tree, checkpoint, before, bpc, runs, all_doc_paths, processed_paths,
                   remaining_paths, pending, f_out, earlier, embeddings, add_calls, collection>>
    /\ UNCHANGED <<reqvars, ocr_call, transform_call>>

\* f_out.write(json.dumps(result) + "\n")
WriteRecord ==
    /\ bpc = "ocr"
    /\ current # NoTask
    /\ current.written < Len(current.result.records)
    /\ f_out' = Append(f_out, JsonLine(current.result.records[current.written + 1]))
    /\ current' = [current EXCEPT !.written = @ + 1]
    /\ UNCHANGED <<tree, checkpoint, before, bpc, runs, all_doc_paths, processed_paths,
                   remaining_paths, texts_to_process, pending, ready, acknowledged,
                   earlier, embeddings, add_calls, collection>>
    /\ UNCHANGED <<reqvars, ocr_call, transform_call>>

\* f_out.flush(); pbar.update(1)
FlushAndUpdate ==
    /\ bpc = "ocr"
    /\ current # NoTask
    /\ current.written = Len(current.result.records)
    /\ checkpoint' = Flushed(checkpoint, f_out)
    /\ f_out' = <<>>
    /\ acknowledged' = acknowledged \cup
            {[source_file |-> current.source_file, result |-> current.result]}
    /\ current' = NoTask
    /\ UNCHANGED <<tree, before, bpc, runs, all_doc_paths, processed_paths,
                   remaining_paths, texts_to_process, pending, ready, earlier,
                   embeddings, add_calls, collection>>
    /\ UNCHANGED <<reqvars, ocr_call, transform_call>>

\* The iterator is exhausted: the with blocks close, then the check that
\* there is something to embed.
EndOcr ==
    /\ bpc = "ocr"
    /\ pending = {} /\ ready = {} /\ current = NoTask
    /\ bpc' = IF texts_to_process = <<>> THEN "no_text" ELSE "embed"
    /\ UNCHANGED <<tree, checkpoint, before, runs, all_doc_paths, processed_paths,
                   remaining_paths, texts_to_process, pending, ready, current, f_out,
                   acknowledged, earlier, embeddings, add_calls, collection>>
    /\ UNCHANGED <<reqvars, ocr_call, transform_call>>

\* except KeyboardInterrupt: sys.exit(0).  Leaving the with block closes the
\* handle, which flushes what was written; the pool and its tasks are dropped.
KeyboardInterrupt ==
    /\ bpc = "ocr"
    /\ checkpoint' = Flushed(checkpoint, f_out)
    /\ f_out' = <<>>
    /\ pending' = {}
    /\ ready' = {}
    /\ current' = NoTask
    /\ bpc' = "interrupted"
    /\ UNCHANGED <<tree, before, runs, all_doc_paths, processed_paths, remaining_paths,
                   texts_to_process, acknowledged, earlier, embeddings, add_calls, collection>>
    /\ UNCHANGED <<reqvars, ocr_call, transform_call>>

\* The process dies while written lines are still in the handle's buffer: some
\* of them reach the file whole, the next one in part.
AbruptShutdown ==
    /\ bpc = "ocr"
    /\ f_out # <<>>
    /\ \E k \in 0..(Len(f_out) - 1) :
            checkpoint' = Flushed(checkpoint, SubSeq(f_out, 1, k) \o <<TruncatedLine>>)
    /\ f_out' = <<>>
    /\ pending' = {}
    /\ ready' = {}
    /\ current' = NoTask
    /\ bpc' = "killed"
    /\ UNCHANGED <<tree, before, runs, all_doc_paths, processed_paths, remaining_paths,
                   texts_to_process, acknowledged, earlier, embeddings, add_calls, collection>>
    /\ UNCHANGED <<reqvars, ocr_call, transform_call>>

\* Phase 2: model.encode over every record's text, inside try.
Embed ==
    /\ bpc = "embed"
    /\ \E encoded \in BOOLEAN :
        IF encoded
        THEN /\ embeddings' = [i \in DOMAIN texts_to_process |->
                                    Embedding(texts_to_process[i].text)]
             /\ bpc' = "insert"
        ELSE /\ embeddings' = embeddings
             /\ bpc' = "aborted"
    /\ UNCHANGED <<tree, checkpoint, before, runs, all_doc_paths, processed_paths,
                   remaining_paths, texts_to_process, pending, ready, current, f_out,
                   acknowledged, earlier, add_calls, collection>>
    /\ UNCHANGED <<reqvars, ocr_call, transform_call>>

\* Phase 3, before the loop: PersistentClient and get_or_create_collection.
OpenCollection ==
    /\ bpc = "insert"
    /\ \E opened \in BOOLEAN : bpc' = IF opened THEN "add" ELSE "aborted"
    /\ UNCHANGED <<tree, checkpoint, before, runs, all_doc_paths, processed_paths,
                   remaining_paths, texts_to_process, pending, ready, current, f_out,
                   acknowledged, earlier, embeddings, add_calls, collection>>
    /\ UNCHANGED <<reqvars, ocr_call, transform_call>>

\* Where the loop stands: range(0, total_items, DB_BATCH_SIZE), one step per
\* call made.
LoopIndex == BatchSize * Len(add_calls)

\* One iteration of the insertion loop: collection.add returns or raises.
InsertChunk ==
    /\ bpc = "add"
    /\ LoopIndex < Len(texts_to_process)
    /\ \E returned \in BOOLEAN :
        /\ add_calls' = Append(add_calls,
                [chunk |-> Chunk(embeddings, texts_to_process, LoopIndex),
                 returned |-> returned])
        /\ collection' = IF returned
                          THEN Added(collection, Chunk(embeddings, texts_to_process, LoopIndex))
                          ELSE collection
        /\ bpc' = IF returned THEN "add" ELSE OnInsertError
    /\ UNCHANGED <<tree, checkpoint, before, runs, all_doc_paths, processed_paths,
                   remaining_paths, texts_to_process, pending, ready, current, f_out,
                   acknowledged, earlier, embeddings>>
    /\ UNCHANGED <<reqvars, ocr_call, transform_call>>

\* The loop is over: main() returns.
FinishBuild ==
    /\ bpc = "add"
    /\ LoopIndex >= Len(texts_to_process)
    /\ bpc' = "finished"
    /\ UNCHANGED <<tree, checkpoint, before, runs, all_doc_paths, processed_paths,
                   remaining_paths, texts_to_process, pending, ready, current, f_out,
                   acknowledged, earlier, embeddings, add_calls, collection>>
    /\ UNCHANGED <<reqvars, ocr_call, transform_call>>

InitBuild ==
    /\ ServiceIdle
    /\ ocr_call = NoOcrCall
    /\ transform_call = NoTransformCall
    /\ BuilderIdle(BuildTree)

NextBuild ==
    \/ StartRun
    \/ ReloadCheckpoint
    \/ WorkerFinishes
    \/ TakeResult
    \/ WriteRecord
    \/ FlushAndUpdate
    \/ EndOcr
    \/ KeyboardInterrupt
    \/ AbruptShutdown
    \/ Embed
    \/ OpenCollection
    \/ InsertChunk
    \/ FinishBuild

SpecBuild == InitBuild /\ [][NextBuild]_vars

\* The enumeration alone, over every set of files the corpus root can hold.
InitCorpus ==
    /\ ServiceIdle
    /\ ocr_call = NoOcrCall
    /\ transform_call = NoTransformCall
    /\ \E files \in SUBSET CorpusCandidates : BuilderIdle(files)

SpecCorpus == InitCorpus /\ [][StartRun]_vars

-----------------------------------------------------------------------------
(* Properties *)

InTrace(name) == \E i \in DOMAIN trace : trace[i] = name
Count(name) == Cardinality({i \in DOMAIN trace : trace[i] = name})

Classified == classification_result # NoResult
Extracted == entities # NoEntities
AllWhitespace(text) == \A i \in DOMAIN text : text[i] \in Whitespace
MimeAllowList == {"application/pdf", "image/png", "image/jpeg", "image/bmp", "image/tiff"}

\* The classification the reference function gives for a query result.
ReferenceClassification(results) ==
    IF Len(results.ids[1]) = 0
    THEN [document_type |-> UNKNOWN, confidence |-> 0]
    ELSE [document_type |->
              IF "document_type" \in DOMAIN results.metadatas[1][1]
              THEN results.metadatas[1][1].document_type
              ELSE UNKNOWN,
          confidence |-> Round(One - results.distances[1][1], Decimals)]

\* C1: for every query result the index returns, find_document_type gives
\* Unknown / 0.0 when there is no neighbour, and otherwise round(1 - d, 2)
\* with the neighbour's document_type metadata, or Unknown when that key is
\* absent.
C1_MatchesReference ==
    query_reply.kind = "results" =>
        classification_result = ReferenceClassification(query_reply.results)

C1_Witness ==
    /\ query_reply.kind = "results"
    /\ query_reply.results.ids[1] # <<>>
    /\ query_reply.results.distances[1][1] = 200
    /\ "document_type" \notin DOMAIN query_reply.results.metadatas[1][1]
    /\ classification_result = [document_type |-> UNKNOWN, confidence |-> 80]

\* C2: every non-error classification has a confidence in [0, 1], for every
\* cosine distance in [0, 2].
C2_ConfidenceInUnitRange ==
    (Classified /\ "error" \notin DOMAIN classification_result) =>
        (0 <= classification_result.confidence
            /\ classification_result.confidence <= Pow10(Decimals))

Unavailable == cache # <<>> /\ cache[1].collection = "None"

\* C3: once the client is Unavailable it stays Unavailable, every
\* find_document_type call returns the not-available error, and neither the
\* embedding model nor the index query is invoked.
C3_UnavailableIsTerminal ==
    [][Unavailable =>
        /\ Unavailable'
        /\ ~InTrace("encode")' /\ ~InTrace("query")'
        /\ (Classified' => classification_result' = [error |-> ErrNotAvailable])
        /\ (InTrace("find_document_type")' => Classified')]_vars

C3_Witness ==
    /\ Unavailable
    /\ InTrace("find_document_type")
    /\ classification_result = [error |-> ErrNotAvailable]
    /\ readers > 2

\* C4: a document type whose lower-cased label is not a schema key gives the
\* empty mapping without a call to the model service; a label that matches a
\* key in any letter case is treated as known (the service is called).
C4_UnknownTypeSkipsModel ==
    Extracted =>
        IF Lower(classification_result.document_type) \in DOCUMENT_SCHEMAS
        THEN Count("post") >= 1 /\ llm_reply # NotAsked
        ELSE /\ entities = Returned(JObj(EmptyDict), <<>>)
             /\ ~InTrace("post")
             /\ llm_reply = NotAsked

C4_Witness ==
    /\ Extracted
    /\ classification_result.document_type = CONTRACT
    /\ entities.value = JObj(EmptyDict)
    /\ ~InTrace("post")
    /\ response.status = 200

PayloadObtained ==
    /\ llm_reply # NotAsked
    /\ llm_reply.kind = "body"
    /\ llm_reply.body.t = "object"
    /\ "response" \in DOMAIN llm_reply.body.v

C6_MalformedPayload ==
    (Extracted /\ PayloadObtained /\ ~json_loads(llm_reply.body.v.response.v).ok) =>
        (entities = Returned(ErrorDict(ErrMalformed), <<"post">>) /\ Count("post") = 1)

C6_Witness ==
    /\ Extracted
    /\ PayloadObtained
    /\ llm_reply.body.v.response.v = TextNotJson
    /\ entities.value = ErrorDict(ErrMalformed)
    /\ Count("post") = 1

ExtractorReturnedMapping == Extracted /\ ~entities.raised /\ entities.value.t = "object"

\* C7: allowed content type, non-blank OCR text, a classification without
\* 'error' and an extracted mapping without 'error' give a 200 carrying the
\* classifier's type and confidence, the mapping and a processing_time string.
C7_SuccessIs200 ==
    (/\ pc = "done"
     /\ request.content_type \in MimeAllowList
     /\ ~AllWhitespace(extracted_text)
     /\ Classified /\ "error" \notin DOMAIN classification_result
     /\ ExtractorReturnedMapping /\ "error" \notin DOMAIN entities.value.v) =>
        /\ response.status = 200
        /\ response.body.document_type = classification_result.document_type
        /\ response.body.confidence = classification_result.confidence
        /\ response.body.entities = entities.value
        /\ response.body.processing_time.t = "fstring"

\* C8: a content type outside the allow-list is answered 400 with a detail
\* containing "Invalid file type"; the bytes are not read and no stage runs.
C8_InvalidTypeRejected ==
    (pc \in {"ocr", "classify", "extract", "done"} /\ request.content_type \notin MimeAllowList) =>
        /\ pc = "done"
        /\ response.status = 400
        /\ Contains(response.detail, "Invalid file type")
        /\ trace = <<>>
        /\ file = NoFile

C8_Witness ==
    /\ pc = "done"
    /\ request.content_type = "text/plain"
    /\ response.status = 400
    /\ trace = <<>>

\* C9: OCR text that is empty after trimming is answered 422 with the
\* no-text detail; neither the classifier nor the extractor is invoked.
C9_BlankTextIs422 ==
    (InTrace("extract_text_from_document") /\ AllWhitespace(extracted_text)) =>
        /\ pc = "done"
        /\ response.status = 422
        /\ response.detail = JStr("Could not extract any text from the document.")
        /\ ~InTrace("find_document_type")
        /\ ~InTrace("extract_entities_with_llm")

C9_Witness ==
    /\ InTrace("extract_text_from_document")
    /\ extracted_text = <<" ">>
    /\ response.status = 422

\* C10: an {error} payload from the classifier or the extractor is answered
\* 500 with exactly that error as detail, never 200; after a classifier
\* error the extractor is not invoked.
C10_ErrorPayloadIs500 ==
    /\ (Classified /\ "error" \in DOMAIN classification_result) =>
            /\ pc = "done"
            /\ response.status = 500
            /\ response.detail = JStr(classification_result.error)
            /\ ~InTrace("extract_entities_with_llm")
    /\ (ExtractorReturnedMapping /\ "error" \in DOMAIN entities.value.v) =>
            /\ pc = "done"
            /\ response.status = 500
            /\ response.detail = entities.value.v.error

C10_Witness ==
    /\ ExtractorReturnedMapping
    /\ entities.value = ErrorDict(ErrConnect)
    /\ response = HTTPException(500, JStr(ErrConnect))

UnsupportedSuffix(suffix) ==
    Lower(suffix) \notin SUPPORTED_PDF_FORMATS \cup SUPPORTED_IMAGE_FORMATS

\* C21: with the collection loaded, an exception while embedding the text or
\* querying the index is caught inside find_document_type, which returns the
\* query-failure error to the handler instead of raising.
C21_QueryExceptionCaught ==
    (/\ Classified
     /\ cache[1].collection # "None"
     /\ query_reply # NotAsked
     /\ query_reply.kind \in {"encode_raises", "query_raises"}) =>
        /\ classification_result = [error |-> "Failed to query the vector database."]
        /\ (pc = "done" => response = HTTPException(500,
                                JStr("Failed to query the vector database.")))

C21_Witness ==
    /\ Classified
    /\ cache[1].collection # "None"
    /\ query_reply # NotAsked
    /\ query_reply.kind = "query_raises"
    /\ InTrace("query")
    /\ response.status = 500

\* C22: for a known document type and every outcome of the model call, the
\* extractor returns a mapping (fields, or an error) and never raises.
C22_ExtractorReturnsMapping ==
    (/\ Extracted
     /\ Lower(classification_result.document_type) \in DOCUMENT_SCHEMAS) =>
        /\ ~entities.raised
        /\ entities.value.t = "object"

\* C23: on the request path the OCR engine is created at most once per
\* process, whatever the number of requests served.
C23_OneReaderPerProcess == readers <= 1

\* C24: once get_vector_db_client has constructed a client, every later call
\* returns that client and constructs none.
C24_ClientIsSingleton ==
    [][/\ Len(cache') <= 1
       /\ cache # <<>> => cache' = cache]_vars

C24_Witness ==
    /\ readers >= 2
    /\ pc = "validate"
    /\ cache # <<>>

\* C28: an upload whose declared content type is allowed and whose file name
\* has an unsupported extension passes validation, gets an empty OCR result
\* and is answered 422, never 400.
C28_AllowedTypeUnsupportedSuffix ==
    (/\ pc \in {"classify", "extract", "done"}
     /\ request.content_type \in MimeAllowList
     /\ UnsupportedSuffix(request.suffix)) =>
        /\ pc = "done"
        /\ InTrace("extract_text_from_document")
        /\ extracted_text = <<>>
        /\ response = HTTPException(422,
                        JStr("Could not extract any text from the document."))

C28_Witness ==
    /\ pc = "done"
    /\ request = [content_type |-> "application/pdf", suffix |-> <<".", "t", "i", "f">>]
    /\ file = [kind |-> "image", pages |-> <<[fault |-> "none", blocks |-> <<BlockA>>]>>]
    /\ response.status = 422

-----------------------------------------------------------------------------
(* Properties of the OCR adapter (SpecOcr) *)

\* C11: called with a filename whose lower-cased extension is in neither the
\* PDF set nor the image set, extract_text_from_document returns exactly the
\* empty string and makes no recognition call.
C11_UnsupportedSuffixGivesEmpty ==
    (ocr_call.returned /\ UnsupportedSuffix(ocr_call.suffix)) =>
        /\ ~ocr_call.result.raised
        /\ ocr_call.result.text = <<>>
        /\ ocr_call.result.readtext = 0

C11_Witness ==
    /\ ocr_call.returned
    /\ ocr_call.suffix = <<".", "t", "i", "f">>
    /\ ocr_call.file = [kind |-> "image",
                        pages |-> <<[fault |-> "none", blocks |-> <<BlockA>>]>>]
    /\ ocr_call.result.text = <<>>

\* The page goes through rasterisation, the chosen transform and recognition
\* without an exception.
PageSucceeds(page, preprocessing) ==
    /\ page.fault # "raster"
    /\ page.fault # "readtext"
    /\ ~(page.fault \in {"deskew", "noise", "threshold"} /\ page.fault = preprocessing)

RECURSIVE BlocksOfSucceeded(_, _, _)
BlocksOfSucceeded(pages, preprocessing, n) ==
    IF n = 0 THEN <<>>
    ELSE BlocksOfSucceeded(pages, preprocessing, n - 1)
            \o (IF PageSucceeds(pages[n], preprocessing) THEN pages[n].blocks ELSE <<>>)

\* C13: for a PDF of which any pages fail (rasterisation, preprocessing or
\* recognition), the text returned is the newline-join of the blocks of
\* exactly the pages that succeeded, in page order and in recognition order
\* within a page; a failing page gives no block and does not stop the later
\* pages.
C13_JoinOfSucceededPages ==
    (/\ ocr_call.returned
     /\ Lower(ocr_call.suffix) \in SUPPORTED_PDF_FORMATS
     /\ ocr_call.file.kind = "pdf") =>
        /\ ~ocr_call.result.raised
        /\ ocr_call.result.text =
                Join(<<"\n">>, BlocksOfSucceeded(ocr_call.file.pages, ocr_call.preprocessing,
                                                 Len(ocr_call.file.pages)))

C13_Witness ==
    /\ ocr_call.returned
    /\ ocr_call.suffix = <<".", "P", "D", "F">>
    /\ ocr_call.file.kind = "pdf"
    /\ Len(ocr_call.file.pages) = 2
    /\ ocr_call.file.pages[1].fault = "raster"
    /\ ocr_call.file.pages[2] = [fault |-> "none", blocks |-> <<BlockA, BlockB>>]
    /\ ocr_call.result.text = <<"a", "\n", "b">>

-----------------------------------------------------------------------------
(* Properties of the preprocessing transforms (SpecTransform) *)

\* C25: no transform raises for a well-formed image, an entirely white page
\* included; each returns an image.
C25_TransformsNeverRaise ==
    transform_call.returned =>
        /\ ~transform_call.result.raised
        /\ transform_call.result.width > 0
        /\ transform_call.result.height > 0

DeskewReturned ==
    /\ transform_call.returned
    /\ transform_call.name = "deskew"
    /\ ~transform_call.result.raised

RawInRange == transform_call.image.ink /\ transform_call.rect.angle \in -90..-1

\* C26 (as amended): for a raw rectangle angle in [-90, 0), the corrected
\* angle is -(90 + raw) when raw is below -45 and -raw otherwise, and lies
\* in (-45, 45]: the raw angle -45 gives 45.
C26_AngleFolded ==
    (DeskewReturned /\ RawInRange) =>
        LET raw == transform_call.rect.angle
            corrected == transform_call.result.angle
        IN  /\ raw < -45 => corrected = -(90 + raw)
            /\ raw >= -45 => corrected = -raw
            /\ -45 < corrected /\ corrected <= 45

C26_Witness ==
    /\ DeskewReturned
    /\ transform_call.image.ink
    /\ transform_call.rect.angle = -45
    /\ transform_call.result.angle = 45

\* C26 as stated: the corrected angle lies in [-45, 45).
C26_AngleInHalfOpenRange ==
    (DeskewReturned /\ RawInRange) =>
        LET raw == transform_call.rect.angle
            corrected == transform_call.result.angle
        IN  /\ raw < -45 => corrected = -(90 + raw)
            /\ raw >= -45 => corrected = -raw
            /\ -45 <= corrected /\ corrected < 45

\* C27: for an image of width W and height H, equal or not, deskew rotates
\* about the centre (W/2, H/2), taken in whole pixels, and returns an image
\* of width W and height H.
C27_CentreAndSizeKept ==
    DeskewReturned =>
        /\ transform_call.result.center =
                <<transform_call.image.width \div 2, transform_call.image.height \div 2>>
        /\ transform_call.result.width = transform_call.image.width
        /\ transform_call.result.height = transform_call.image.height

-----------------------------------------------------------------------------
(* Properties of the index builder (SpecBuild, SpecCorpus) *)

IsPrefix(s, t) == Len(s) <= Len(t) /\ SubSeq(t, 1, Len(s)) = s

\* The lines that are records, and the corpus files they name.
RecordLines(lines) == SelectSeq(lines, LAMBDA line : line.json)
RecordedFiles(lines) ==
    {PathOfStr(lines[i].data.source_file) : i \in {j \in DOMAIN lines : lines[j].json}}

\* No two records for the same file and preprocessing variant.
NoDuplicateRecords(lines) ==
    \A i, j \in DOMAIN lines :
        (i < j /\ lines[i].json /\ lines[j].json) =>
            \/ lines[i].data.source_file # lines[j].data.source_file
            \/ lines[i].data.metadata.augmentation # lines[j].data.metadata.augmentation

RecordsOf(lines, doc_path) ==
    SelectSeq(lines, LAMBDA line : line.json /\ PathOfStr(line.data.source_file) = doc_path)

\* The run got past the second read of the checkpoint.
ReachedOcr == bpc \notin {"idle", "no_documents", "reload", "crashed"}

\* The OCR phase of the run ended by itself.
OcrPhaseOver == bpc \in {"no_text", "embed", "insert", "add", "aborted", "finished"}

AlreadyRecorded == all_doc_paths \cap RecordedFiles(before)

InCheckpoint(task) ==
    \A k \in DOMAIN task.result.records :
        \E i \in DOMAIN checkpoint.lines :
            checkpoint.lines[i] = JsonLine(task.result.records[k])

HasMalformedLine(lines) == \E i \in DOMAIN lines : ~lines[i].json

\* C16: with a malformed line in the checkpoint the run is not aborted,
\* whether or not work remains, and the well-formed records reach the
\* embedding phase.
C16_MalformedLineSkipped ==
    (HasMalformedLine(before) /\ bpc \notin {"idle", "reload"}) =>
        /\ bpc # "crashed"
        /\ bpc \in {"embed", "insert", "add", "aborted", "finished"} =>
                \A i \in DOMAIN before :
                    before[i].json =>
                        \E k \in DOMAIN texts_to_process :
                            texts_to_process[k] = before[i].data

\* A worker handed over a result in this step.
WorkerStep == Cardinality(ready') > Cardinality(ready)

\* C17: the checkpoint is only appended to, and only by the coordinator: a
\* worker's step leaves it alone, every step keeps its content as a prefix,
\* and what it held when the run started is a prefix of what it holds at any
\* later point of the run.
C17_AppendOnly ==
    [][/\ IsPrefix(checkpoint.lines, checkpoint'.lines)
       /\ IsPrefix(before', checkpoint'.lines)
       /\ WorkerStep => checkpoint' = checkpoint
       /\ checkpoint' # checkpoint => bpc \in {"reload", "ocr"}]_vars

C17_Witness ==
    /\ runs = 2
    /\ before # <<>>
    /\ Len(checkpoint.lines) > Len(before)

\* The number of records in the calls before call c.
RECURSIVE Offset(_)
Offset(c) == IF c = 1 THEN 0 ELSE Offset(c - 1) + Len(add_calls[c - 1].chunk.ids)

\* C18: the records are inserted in consecutive chunks of at most the batch
\* size that cover every record once, in order; the ids are id_0, id_1, ...
\* without repetition; the k-th record's embedding, metadata and id are in
\* the same chunk at the same place.
C18_ChunksAligned ==
    /\ \A c \in DOMAIN add_calls :
        LET chunk == add_calls[c].chunk IN
        /\ Len(chunk.ids) \in 1..BatchSize
        /\ BatchSize <= DB_BATCH_SIZE
        /\ Len(chunk.embeddings) = Len(chunk.ids)
        /\ Len(chunk.metadatas) = Len(chunk.ids)
        /\ Offset(c) + Len(chunk.ids) <= Len(texts_to_process)
        /\ c < Len(add_calls) => Len(chunk.ids) = BatchSize
        /\ \A j \in DOMAIN chunk.ids :
            LET k == Offset(c) + j IN
            /\ chunk.ids[j] = <<"id_", k - 1>>
            /\ chunk.embeddings[j] = Embedding(texts_to_process[k].text)
            /\ chunk.metadatas[j] = texts_to_process[k].metadata
    /\ bpc = "finished" =>
        /\ add_calls # <<>>
        /\ Offset(Len(add_calls)) + Len(add_calls[Len(add_calls)].chunk.ids)
                = Len(texts_to_process)

C18_Witness ==
    /\ bpc = "finished"
    /\ Len(add_calls) >= 3
    /\ Len(add_calls[Len(add_calls)].chunk.ids) = 1
    /\ texts_to_process[1].source_file # texts_to_process[Len(texts_to_process)].source_file

\* C19: a failure of the embedding phase or of a chunk insertion ends the
\* build: after an embedding failure there is no insertion call, after a
\* failed call there is no further call, so the calls that returned are the
\* chunks before the failed one; neither phase touches the checkpoint.
C19_FailureAborts ==
    [][/\ bpc \in {"embed", "insert", "add", "aborted"} => checkpoint' = checkpoint
       /\ (bpc' = "aborted" /\ embeddings' = <<>>) => add_calls' = <<>>
       /\ \A c \in DOMAIN add_calls' :
            /\ c < Len(add_calls') => add_calls'[c].returned
            /\ ~add_calls'[c].returned => bpc' = "aborted"
            /\ add_calls'[c].chunk =
                    Chunk(embeddings', texts_to_process', BatchSize * (c - 1))
       /\ bpc = "aborted" => (add_calls' = add_calls \/ runs' # runs)]_vars

C19_Witness ==
    /\ bpc = "aborted"
    /\ Len(add_calls) >= 2
    /\ ~add_calls[Len(add_calls)].returned

\* The file lies in a directory named as the index's storage directory, or
\* anywhere below one.
UnderStorage(p) ==
    \E i \in DOMAIN p.parent :
        i > Len(SAMPLE_DOCS_PATH) /\ p.parent[i] = Last(DB_PATH)

\* C20: the corpus is exactly the files under the corpus root with a supported
\* lower-cased extension that do not live under the index's storage
\* directory, at any depth below it.
C20_CorpusExcludesStorage ==
    bpc \in {"reload", "no_documents"} =>
        all_doc_paths = {p \in tree : /\ Lower(Suffix(p)) \in SUPPORTED_FORMATS
                                      /\ ~UnderStorage(p)}

\* The run submitted its remaining-work list to the pool.
Submitted == bpc \notin {"idle", "no_documents", "reload", "crashed"}

\* C29: a corpus file whose worker returned nothing adds no record; it stays
\* in the remaining-work list and every subsequent run submits it to OCR
\* again, while a file that yielded a record is never submitted again.
C29_UnrecordedResubmitted ==
    /\ \A task \in acknowledged :
            ~Truthy(task.result) =>
                RecordsOf(checkpoint.lines, task.source_file) =
                    RecordsOf(before, task.source_file)
    /\ (runs >= 2 /\ bpc # "reload") =>
        \A task \in earlier :
            /\ (~Truthy(task.result) /\ task.source_file \notin RecordedFiles(before)) =>
                    /\ task.source_file \in remaining_paths
                    /\ Submitted
            /\ Truthy(task.result) => task.source_file \notin remaining_paths

\* The record at position k (from 1) of the checkpoint, in file order.
CheckpointRecord(k) == RecordLines(checkpoint.lines)[k].data

\* C30: in every run the record at zero-based position k of the
\* checkpoint-ordered record list is inserted under id_k, from id_0 on; and
\* in a later run against the same collection every entry inserted before
\* is at its id's position again, so it is given the id it had and only
\* appended records get new ids.
C30_IdsByCheckpointPosition ==
    /\ add_calls # <<>> =>
        /\ add_calls[1].chunk.ids[1] = <<"id_", 0>>
        /\ Len(RecordLines(checkpoint.lines)) = Len(texts_to_process)
        /\ \A c \in DOMAIN add_calls :
            \A j \in DOMAIN add_calls[c].chunk.ids :
                LET k == Offset(c) + j IN
                /\ add_calls[c].chunk.ids[j] = <<"id_", k - 1>>
                /\ add_calls[c].chunk.metadatas[j] = CheckpointRecord(k).metadata
                /\ add_calls[c].chunk.embeddings[j] = Embedding(CheckpointRecord(k).text)
    /\ bpc \in {"embed", "insert", "add", "finished"} =>
        \A entry \in collection :
            LET k == entry.id[2] + 1 IN
            /\ k <= Len(texts_to_process)
            /\ entry.metadata = texts_to_process[k].metadata
            /\ entry.embedding = Embedding(texts_to_process[k].text)

C30_Witness ==
    /\ runs = 2
    /\ bpc = "finished"
    /\ Len(before) = Len(PREPROCESSING_OPTIONS)
    /\ Len(texts_to_process) = 2 * Len(PREPROCESSING_OPTIONS)
    /\ Cardinality(collection) = Len(texts_to_process)
    /\ remaining_paths # {}
    /\ \E entry \in collection :
            entry.id = <<"id_", 0>> /\ entry.metadata = before[1].data.metadata

====
